---- MODULE Spec2Model ----
\* Model of the `buildah images` command (cmd/buildah/images.go): argument
\* checks, filter parsing, predicate evaluation, reference matching, row
\* projection and rendering.
\*
\* Strings are modelled as sequences of tokens.  A token is either one of the
\* separator characters the code looks for (",", "=", ":", "/", "@", " ") or a
\* maximal run of other characters ("image", "reg.io", "dangling", ...).  All
\* string operations of the code (Split, SplitN, TrimSpace, Contains,
\* HasSuffix, ==, +) are computed on these sequences.
EXTENDS Integers, Sequences, FiniteSets, TLC

VARIABLES
    pc,            \* position of imagesCmd
    args,          \* positional arguments
    iopts,         \* imageResults: the flags
    store,         \* content of the local store (environment)
    storeOpened,   \* getStore has been called
    enumerated,    \* store.Images has been called
    images,        \* local variable images of imagesCmd
    params,        \* local variable params of imagesCmd (*filterParams)
    iterated,      \* outputImages has run its loop over the images
    filterRes,     \* what parseFilter returned (NoResult while not called)
    found,         \* local variable found of outputImages
    imagesParams,  \* local variable imagesParams of outputImages
    jsonImages,    \* local variable jsonImages of outputImages
    printed,       \* what was written to stdout
    result,        \* the error value imagesCmd returned
    nameArg,       \* local variable name of imagesCmd
    call,          \* arguments of a direct call of one function
    ret            \* its return value

vars == <<pc, args, iopts, store, storeOpened, enumerated, images, params,
          iterated, found, imagesParams, jsonImages, printed, result, nameArg,
          filterRes, call, ret>>

cmdVars == <<pc, args, iopts, store, storeOpened, enumerated, images, params,
             iterated, found, imagesParams, jsonImages, printed, result, nameArg,
             filterRes>>

\* ---------------------------------------------------------------- bounds
MaxPathDepth == 2   \* path components of a generated image name
MaxImages == 2      \* images in the store
MaxClauses == 2     \* clauses of a generated filter string
MaxArgs == 2        \* positional arguments
MaxTime == 2        \* timestamps are 0 (the zero time) .. MaxTime

\* ---------------------------------------------------------------- strings
EmptyString == <<>>

\* strings.Index for a one-character separator: position of the first
\* occurrence, 0 when there is none.
IndexOf(s, sep) ==
    IF \E i \in 1..Len(s) : s[i] = sep
    THEN CHOOSE i \in 1..Len(s) : s[i] = sep /\ \A j \in 1..(i-1) : s[j] # sep
    ELSE 0

Contains(s, sep) == IndexOf(s, sep) # 0

RECURSIVE Split(_, _)
Split(s, sep) ==
    LET i == IndexOf(s, sep) IN
    IF i = 0 THEN <<s>>
    ELSE <<SubSeq(s, 1, i-1)>> \o Split(SubSeq(s, i+1, Len(s)), sep)

\* strings.SplitN(s, sep, 2)
SplitN2(s, sep) ==
    LET i == IndexOf(s, sep) IN
    IF i = 0 THEN <<s>>
    ELSE <<SubSeq(s, 1, i-1), SubSeq(s, i+1, Len(s))>>

HasSuffix(s, suffix) ==
    /\ Len(suffix) <= Len(s)
    /\ SubSeq(s, Len(s) - Len(suffix) + 1, Len(s)) = suffix

RECURSIVE TrimSpace(_)
TrimSpace(s) ==
    IF s = <<>> THEN s
    ELSE IF Head(s) = " " THEN TrimSpace(Tail(s))
    ELSE IF s[Len(s)] = " " THEN TrimSpace(SubSeq(s, 1, Len(s)-1))
    ELSE s

RECURSIVE Join(_, _)
Join(parts, sep) ==
    IF parts = <<>> THEN <<>>
    ELSE IF Len(parts) = 1 THEN parts[1]
    ELSE parts[1] \o <<sep>> \o Join(Tail(parts), sep)

\* ---------------------------------------------------------------- names
\* Classes of tokens, as the reference grammar of containers/image sees them.
LowerWords == {"image", "myrepo", "otherrepo", "library", "localhost",
               "missing", "v1", "v2", "5000", "sha256", "abc",
               "reg.io", "docker.io", "k", "v", "w", "x", "1",
               "true", "false"}
UpperWords == {"Image"}
DottedWords == {"reg.io", "docker.io"}
PortWords == {"5000", "1"}
HexWords == {"abc"}

defaultDomain == <<"docker.io">>
officialRepoName == <<"library">>

NoName == [ok |-> FALSE, name |-> <<>>, tag |-> <<>>, tagged |-> FALSE, digested |-> FALSE]

\* the second half of reference.splitDockerDomain: official images of the
\* default domain live under library/
official(domain, remainder) ==
    [domain |-> domain,
     remainder |-> IF domain = defaultDomain /\ ~Contains(remainder, "/")
                   THEN officialRepoName \o <<"/">> \o remainder
                   ELSE remainder]

\* reference.splitDockerDomain, for a name whose first "/" is at position i
\* (0 when it has none)
splitAt(name, i) ==
    IF /\ i # 0
       /\ \/ \E j \in 1..(i-1) : name[j] \in DottedWords \cup {":"}
          \/ SubSeq(name, 1, i-1) = <<"localhost">>
    THEN official(SubSeq(name, 1, i-1), SubSeq(name, i+1, Len(name)))
    ELSE official(defaultDomain, name)

splitDockerDomain(name) == splitAt(name, IndexOf(name, "/"))

\* domain of the reference grammar: host, optionally followed by :port
ValidDomain(d) ==
    \/ Len(d) = 1 /\ d[1] \in LowerWords \cup UpperWords
    \/ Len(d) = 3 /\ d[1] \in LowerWords \cup UpperWords /\ d[2] = ":" /\ d[3] \in PortWords

\* path component of the reference grammar: lower case only
ValidPathComponent(c) == Len(c) = 1 /\ c[1] \in LowerWords

\* name of the reference grammar: [domain "/"] component ("/" component)*,
\* given as its "/"-separated parts
ValidComponents(comps) ==
    \/ \A i \in 1..Len(comps) : ValidPathComponent(comps[i])
    \/ /\ Len(comps) >= 2
       /\ ValidDomain(comps[1])
       /\ \A i \in 2..Len(comps) : ValidPathComponent(comps[i])

ValidName(n) == ValidComponents(Split(n, "/"))

ValidTag(t) == Len(t) = 1 /\ t[1] \in LowerWords \cup UpperWords

ValidDigest(d) == Len(d) = 3 /\ d[1] = "sha256" /\ d[2] = ":" /\ d[3] \in HexWords

\* name [":" tag], the part of a reference before its digest
ParseNameTag(nameTag, n, digested) ==
    IF n >= 3 /\ nameTag[n-1] = ":" /\ ValidTag(<<nameTag[n]>>)
    THEN IF ValidName(SubSeq(nameTag, 1, n-2))
         THEN [ok |-> TRUE, name |-> SubSeq(nameTag, 1, n-2), tag |-> <<nameTag[n]>>,
               tagged |-> TRUE, digested |-> digested]
         ELSE NoName
    ELSE IF ValidName(nameTag)
    THEN [ok |-> TRUE, name |-> nameTag, tag |-> <<>>, tagged |-> FALSE,
          digested |-> digested]
    ELSE NoName

\* reference.Parse: name [":" tag] ["@" digest], anchored at both ends; at is
\* the position of the "@" of s (0 when it has none)
ParseAt(s, at) ==
    IF at = 0 THEN ParseNameTag(s, Len(s), FALSE)
    ELSE IF ~ValidDigest(SubSeq(s, at+1, Len(s))) THEN NoName
    ELSE ParseNameTag(SubSeq(s, 1, at-1), at-1, TRUE)

ParseReference(s) == ParseAt(s, IndexOf(s, "@"))

\* the part of the remainder before its first ":" (at position tagSep)
RemoteName(remainder, tagSep) ==
    IF tagSep # 0 THEN SubSeq(remainder, 1, tagSep-1) ELSE remainder

HasUpper(s) == \E i \in 1..Len(s) : s[i] \in UpperWords

ParseSplit(sp) ==
    IF HasUpper(RemoteName(sp.remainder, IndexOf(sp.remainder, ":"))) THEN NoName
    ELSE ParseReference(sp.domain \o <<"/">> \o sp.remainder)

\* reference.ParseNormalizedNamed
ParseNormalizedNamed(s) == ParseSplit(splitDockerDomain(s))

\* ---------------------------------------------------------------- matchesReference
\* lines 546-554, for the parsed candidate named
matchesNamed(named, argName, splitArg) ==
    IF ~named.ok THEN FALSE
    ELSE IF Contains(argName, ":")
    THEN IF named.tagged
         THEN (named.name = splitArg[1] \/ HasSuffix(named.name, <<"/">> \o splitArg[1]))
              /\ named.tag = splitArg[2]
         ELSE FALSE
    ELSE named.name = argName \/ HasSuffix(named.name, <<"/">> \o argName)

matchesReference_ExactOnly(imageName, argName) ==
    IF argName = <<>> THEN TRUE
    ELSE IF imageName = <<>> THEN FALSE
    ELSE IF Contains(argName, ":")
    THEN matchesNamed(ParseNormalizedNamed(imageName), argName, Split(argName, ":"))
    ELSE ParseNormalizedNamed(imageName).name = argName

matchesReference(imageName, argName) ==
    IF argName = <<>> THEN TRUE
    ELSE IF imageName = <<>> THEN FALSE
    ELSE matchesNamed(ParseNormalizedNamed(imageName), argName, Split(argName, ":"))

\* ---------------------------------------------------------------- store
\* storage.Image with what the inspection of the image returns.  The image's
\* ID is its position in the store.
\*   Names     image.Names
\*   Created   image.Created (0 is the zero time)
\*   ReadOnly  image.ReadOnly
\*   inspect   result of ParseStoreReference/NewImage/Inspect on the image:
\*             ok = FALSE when one of them fails, else Created and Labels of
\*             the configuration (Labels is a set of <<key, value>> pairs
\*             of strings with distinct keys)
\*   parent    what imageIsParent answers: "yes", "no" or "error"
Image(names, created, readOnly, inspect, parent) ==
    [Names |-> names, Created |-> created, ReadOnly |-> readOnly,
     inspect |-> inspect, parent |-> parent]

Inspect(created, labels) == [ok |-> TRUE, Created |-> created, Labels |-> labels]
InspectFails == [ok |-> FALSE, Created |-> 0, Labels |-> {}]

\* ---------------------------------------------------------------- errors
Errorf(format, a) == [kind |-> "error", fmt |-> format, args |-> a, wrap |-> ""]
Wrapf(err, message) == [err EXCEPT !.wrap = message]
Panic == [kind |-> "panic", fmt |-> "index out of range", args |-> <<>>, wrap |-> ""]
Success == [kind |-> "ok", fmt |-> "", args |-> <<>>, wrap |-> ""]
NoResult == [kind |-> "none", fmt |-> "", args |-> <<>>, wrap |-> ""]

\* ---------------------------------------------------------------- filterParams
\* *filterParams; nil is TRUE for the nil pointer.
NilParams ==
    [nil |-> TRUE, dangling |-> <<>>, label |-> <<>>, beforeImage |-> <<>>,
     sinceImage |-> <<>>, beforeDate |-> 0, sinceDate |-> 0,
     referencePattern |-> <<>>, readOnly |-> <<>>]

NewParams == [NilParams EXCEPT !.nil = FALSE]

\* ---------------------------------------------------------------- setFilterDate
\* <<i, j>>: the positions of all names of all images
NamePositions(imgs) ==
    UNION {{<<i, j>> : j \in 1..Len(imgs[i].Names)} : i \in 1..Len(imgs)}

Earlier(q, r) == q[1] < r[1] \/ (q[1] = r[1] /\ q[2] < r[2])

\* the first of the positions hits in iteration order, <<0, 0>> when empty
FirstPosition(hits) ==
    IF hits = {} THEN <<0, 0>>
    ELSE CHOOSE q \in hits : \A r \in hits : r = q \/ Earlier(q, r)

\* lines 224-238, for the image the loops stopped at
inspectedDate(image) ==
    IF ~image.inspect.ok
    THEN [ok |-> FALSE, date |-> 0, fmt |-> "error inspecting image %q: %v"]
    ELSE [ok |-> TRUE, date |-> image.inspect.Created, fmt |-> ""]

dateOfFirst(imgs, first) ==
    IF first = <<0, 0>> THEN [ok |-> FALSE, date |-> 0, fmt |-> "could not locate image %q"]
    ELSE inspectedDate(imgs[first[1]])

setFilterDate(imgs, imgName) ==
    dateOfFirst(imgs, FirstPosition({q \in NamePositions(imgs) :
                                       matchesReference(imgs[q[1]].Names[q[2]], imgName)}))

\* ---------------------------------------------------------------- parseFilter
\* The result of one clause: the error returned (or the crash), or the new
\* value of params.
Failed(err) == [res |-> err, params |-> NilParams]
Parsed(p) == [res |-> Success, params |-> p]

\* lines 183-187 and 207-211
booleanClause(p, pair, field) ==
    IF pair[2] = <<"true">> \/ pair[2] = <<"false">>
    THEN Parsed([p EXCEPT ![field] = pair[2]])
    ELSE Failed(Errorf("invalid filter: '%s=[%s]'", <<pair[1], pair[2]>>))

\* lines 191-196 and 198-203, d being what setFilterDate returned
dateClause(p, pair, d, dateField, imageField) ==
    IF ~d.ok THEN Failed(Errorf("no such id: %s", <<pair[1]>>))
    ELSE Parsed([p EXCEPT ![dateField] = d.date, ![imageField] = pair[2]])

\* the switch of lines 181-214 on key = strings.TrimSpace(pair[0]); reading
\* pair[1] of a clause that has no "=" is an index out of range
parsePair(imgs, p, pair, key) ==
    IF key \notin {<<"dangling">>, <<"label">>, <<"before">>, <<"since">>,
                   <<"reference">>, <<"readonly">>}
    THEN Failed(Errorf("invalid filter: '%s'", <<pair[1]>>))
    ELSE IF Len(pair) < 2 THEN Failed(Panic)
    ELSE IF key = <<"dangling">> THEN booleanClause(p, pair, "dangling")
    ELSE IF key = <<"label">> THEN Parsed([p EXCEPT !.label = pair[2]])
    ELSE IF key = <<"before">>
    THEN dateClause(p, pair, setFilterDate(imgs, pair[2]), "beforeDate", "beforeImage")
    ELSE IF key = <<"since">>
    THEN dateClause(p, pair, setFilterDate(imgs, pair[2]), "sinceDate", "sinceImage")
    ELSE IF key = <<"reference">> THEN Parsed([p EXCEPT !.referencePattern = pair[2]])
    ELSE booleanClause(p, pair, "readOnly")

\* one iteration of the loop of parseFilter, for the clause param
parseClause(imgs, p, param) ==
    parsePair(imgs, p, SplitN2(param, "="), TrimSpace(SplitN2(param, "=")[1]))

RECURSIVE parseClauses(_, _, _)
parseNext(imgs, step, rest) ==
    IF step.res.kind # "ok" THEN step
    ELSE parseClauses(imgs, step.params, rest)

parseClauses(imgs, p, filterStrings) ==
    IF filterStrings = <<>> THEN Parsed(p)
    ELSE parseNext(imgs, parseClause(imgs, p, Head(filterStrings)), Tail(filterStrings))

parseFilter(imgs, filter) == parseClauses(imgs, NewParams, Split(filter, ","))

\* ---------------------------------------------------------------- predicates
matchesDangling(name, dangling) ==
    \/ dangling = <<"false">> /\ name # <<>>
    \/ dangling = <<"true">> /\ name = <<>>

matchesReadOnly(image, readOnly) ==
    \/ readOnly = <<"false">> /\ ~image.ReadOnly
    \/ readOnly = <<"true">> /\ image.ReadOnly

\* lines 503-515: pair is the predicate split at its first "="
labelsMatch(labels, pair) ==
    IF \E kv \in labels : kv[1] = pair[1]
    THEN IF Len(pair) = 2
         THEN \E kv \in labels : kv[1] = pair[1] /\ kv[2] = pair[2]
         ELSE FALSE
    ELSE FALSE

matchesLabel(image, label) ==
    IF ~image.inspect.ok THEN FALSE
    ELSE labelsMatch(image.inspect.Labels, SplitN2(label, "="))

matchesBeforeImage_NonStrict(image, p) == image.Created = 0 \/ image.Created <= p.beforeDate

matchesBeforeImage(image, p) == image.Created = 0 \/ image.Created < p.beforeDate

matchesSinceImage(image, p) == image.Created = 0 \/ image.Created > p.sinceDate

matchesFilter_NoReadOnly(image, name, p) ==
    IF p.nil THEN TRUE
    ELSE IF p.dangling # <<>> /\ ~matchesDangling(name, p.dangling) THEN FALSE
    ELSE IF p.label # <<>> /\ ~matchesLabel(image, p.label) THEN FALSE
    ELSE IF p.beforeImage # <<>> /\ ~matchesBeforeImage(image, p) THEN FALSE
    ELSE IF p.sinceImage # <<>> /\ ~matchesSinceImage(image, p) THEN FALSE
    ELSE IF p.referencePattern # <<>> /\ ~matchesReference(name, p.referencePattern) THEN FALSE
    ELSE TRUE

matchesFilter(image, name, p) ==
    IF p.nil THEN TRUE
    ELSE IF p.dangling # <<>> /\ ~matchesDangling(name, p.dangling) THEN FALSE
    ELSE IF p.label # <<>> /\ ~matchesLabel(image, p.label) THEN FALSE
    ELSE IF p.beforeImage # <<>> /\ ~matchesBeforeImage(image, p) THEN FALSE
    ELSE IF p.sinceImage # <<>> /\ ~matchesSinceImage(image, p) THEN FALSE
    ELSE IF p.referencePattern # <<>> /\ ~matchesReference(name, p.referencePattern) THEN FALSE
    ELSE IF p.readOnly # <<>> /\ ~matchesReadOnly(image, p.readOnly) THEN FALSE
    ELSE TRUE

\* ---------------------------------------------------------------- outputImages
\* getDateAndSize: the creation time of the image's configuration, the zero
\* time when the image cannot be inspected.
getDateAndSize(image) == IF image.inspect.ok THEN image.inspect.Created ELSE 0

\* imageIsParent; a failed lineage lookup answers false with an error
imageIsParent(image) == image.parent = "yes"

\* image.ID of the image at position i of the store: a string of
\* idTruncLength + 1 characters, the first of which tells the images apart
idTruncLength == 12

imageID(i) == <<ToString(i)>> \o [k \in 1..idTruncLength |-> "0"]

shortID(id) == IF Len(id) > idTruncLength THEN SubSeq(id, 1, idTruncLength) ELSE id

\* lines 302-305: the identifier shown in a row
displayedID(id, opts) == IF opts.truncate THEN shortID(id) ELSE <<"sha256:">> \o id

NoOutput == [kind |-> "nothing", rows |-> <<>>, format |-> <<>>, lines |-> <<>>]

\* One iteration of the loop over image.Names (lines 316-356) for the name n,
\* parsed as named.  st carries found, filterMatched and imageReposAndTags.
nameStep_FoundAfterFilter(image, n, named, argName, filters, st) ==
    IF n = <<>> THEN st
    ELSE IF ~named.ok THEN st
    ELSE IF ~matchesReference(n, argName) THEN st
    ELSE IF ~matchesFilter(image, n, filters) THEN st
    ELSE [st EXCEPT !.found = TRUE, !.filterMatched = TRUE,
                    !.imageReposAndTags = Append(@, <<named.name, named.tag>>)]

nameStep(image, n, named, argName, filters, st) ==
    IF n = <<>> THEN st
    ELSE IF ~named.ok THEN st
    ELSE IF ~matchesReference(n, argName) THEN st
    ELSE IF ~matchesFilter(image, n, filters) THEN [st EXCEPT !.found = TRUE]
    ELSE [st EXCEPT !.found = TRUE, !.filterMatched = TRUE,
                    !.imageReposAndTags = Append(@, <<named.name, named.tag>>)]

\* The loop over image.Names (lines 315-357)
RECURSIVE namesLoop(_, _, _, _, _)
namesLoop(image, names, argName, filters, st) ==
    IF names = <<>> THEN st
    ELSE namesLoop(image, Tail(names), argName, filters,
                   nameStep(image, Head(names), ParseNormalizedNamed(Head(names)),
                            argName, filters, st))

\* lines 358-360
unnamedStep(image, filters, st) ==
    IF image.Names = <<>> /\ matchesFilter(image, <<>>, filters)
    THEN [st EXCEPT !.filterMatched = TRUE]
    ELSE st

displayedReposAndTags_NoDefault(imageReposAndTags, opts) ==
    IF opts.quiet THEN SubSeq(imageReposAndTags, 1, 1) ELSE imageReposAndTags

\* Lines 378-396: the (repository, tag) pairs that become rows of an image
\* that is listed: a single empty pair when there is none, only the first
\* one with --quiet.
displayedReposAndTags(imageReposAndTags, opts) ==
    IF imageReposAndTags = <<>> THEN << <<EmptyString, EmptyString>> >>
    ELSE IF opts.quiet THEN SubSeq(imageReposAndTags, 1, 1)
    ELSE imageReposAndTags

\* lines 278-286
createdTimeOf(image, inspectedTime) ==
    IF inspectedTime # 0 /\ image.Created # inspectedTime THEN inspectedTime
    ELSE image.Created

\* lines 382-392
imageRows(id, image, createdTime, kept) ==
    [i \in 1..Len(kept) |->
        [ID |-> id, Name |-> kept[i][1], Tag |-> kept[i][2],
         CreatedAtRaw |-> createdTime, ReadOnly |-> image.ReadOnly]]

\* lines 361-396, st being the outcome of the loop over the names
listImage_JsonPerName(acc, image, id, opts, createdTime, st) ==
    IF ~st.filterMatched THEN [acc EXCEPT !.found = st.found]
    ELSE IF opts.json
    THEN [acc EXCEPT !.found = st.found,
                     !.jsonImages =
                        @ \o [k \in 1..Len(displayedReposAndTags(st.imageReposAndTags, opts)) |->
                                 [ID |-> imageID(id), Names |-> image.Names,
                                  CreatedAtRaw |-> createdTime,
                                  ReadOnly |-> image.ReadOnly]]]
    ELSE [acc EXCEPT !.found = st.found,
                     !.imagesParams =
                        @ \o imageRows(displayedID(imageID(id), opts), image, createdTime,
                                       displayedReposAndTags(st.imageReposAndTags, opts))]

listImage(acc, image, id, opts, createdTime, st) ==
    IF ~st.filterMatched THEN [acc EXCEPT !.found = st.found]
    ELSE IF opts.json
    THEN [acc EXCEPT !.found = st.found,
                     !.jsonImages =
                        Append(@, [ID |-> imageID(id), Names |-> image.Names,
                                   CreatedAtRaw |-> createdTime,
                                   ReadOnly |-> image.ReadOnly])]
    ELSE [acc EXCEPT !.found = st.found,
                     !.imagesParams =
                        @ \o imageRows(displayedID(imageID(id), opts), image, createdTime,
                                       displayedReposAndTags(st.imageReposAndTags, opts))]

\* One iteration of the loop over images (lines 274-397) for the image at
\* position id of the store.  acc carries found, imagesParams, jsonImages and opts.readOnly.
imageLoopBody_SkipWithAll(acc, image, id, filters, argName, opts) ==
    IF image.Names = <<>> /\ imageIsParent(image)
    THEN [acc EXCEPT !.readOnly = @ \/ image.ReadOnly]
    ELSE listImage([acc EXCEPT !.readOnly = @ \/ image.ReadOnly], image, id, opts,
                   createdTimeOf(image, getDateAndSize(image)),
                   unnamedStep(image, filters,
                       namesLoop(image, image.Names, argName, filters,
                                 [found |-> acc.found, filterMatched |-> FALSE,
                                  imageReposAndTags |-> <<>>])))

imageLoopBody(acc, image, id, filters, argName, opts) ==
    IF ~opts.all /\ image.Names = <<>> /\ imageIsParent(image)
    THEN [acc EXCEPT !.readOnly = @ \/ image.ReadOnly]
    ELSE listImage([acc EXCEPT !.readOnly = @ \/ image.ReadOnly], image, id, opts,
                   createdTimeOf(image, getDateAndSize(image)),
                   unnamedStep(image, filters,
                       namesLoop(image, image.Names, argName, filters,
                                 [found |-> acc.found, filterMatched |-> FALSE,
                                  imageReposAndTags |-> <<>>])))

RECURSIVE imagesLoop(_, _, _, _, _, _)
imagesLoop(acc, imgs, id, filters, argName, opts) ==
    IF id > Len(imgs) THEN acc
    ELSE imagesLoop(imageLoopBody(acc, imgs[id], id, filters, argName, opts),
                    imgs, id + 1, filters, argName, opts)

\* the ways to put row r into o, a sequence in descending order of
\* CreatedAtRaw, that keep it so
insertions(o, r) ==
    {SubSeq(o, 1, k) \o <<r>> \o SubSeq(o, k+1, Len(o)) :
        k \in {m \in 0..Len(o) :
                  /\ \A i \in 1..m : o[i].CreatedAtRaw >= r.CreatedAtRaw
                  /\ \A i \in (m+1)..Len(o) : o[i].CreatedAtRaw <= r.CreatedAtRaw}}

\* sort.Sort with Less(i, j) = a[i].CreatedAtRaw.After(a[j].CreatedAtRaw):
\* the sort is not stable, so every arrangement of the rows that is in
\* descending order of CreatedAtRaw is a possible outcome.
RECURSIVE sortImagesOutput(_)
sortImagesOutput(rows) ==
    IF rows = <<>> THEN {<<>>}
    ELSE UNION {insertions(o, Head(rows)) : o \in sortImagesOutput(Tail(rows))}

\* lines 399-401, acc being the values of the local variables after the loop
afterLoop(acc, argName) ==
    [acc |-> acc,
     res |-> IF ~acc.found /\ argName # <<>>
             THEN Errorf("No such image %s", <<argName>>)
             ELSE Success]

\* ---------------------------------------------------------------- outputHeader
\* A template is the sequence of its items: "table ", "\t" and the actions
\* between {{ and }}.
IDString == <<"{{.ID}}">>

NameItem == "{{if .Name}}{{.Name}}{{else}}<none>{{end}}"
TagItem == "{{if .Tag}}{{.Tag}}{{else}}<none>{{end}}"

\* strings.Replace(format, `\t`, "\t", -1)
replaceTabs(format) ==
    [i \in 1..Len(format) |-> IF format[i] = "\\t" THEN "\t" ELSE format[i]]

\* lines 252-264
defaultHeader(opts) ==
    (IF ~opts.noHeading THEN <<"table ">> ELSE <<>>)
    \o <<NameItem, "\t", TagItem, "\t">>
    \o (IF opts.digests THEN <<"{{.Digest}}", "\t">> ELSE <<>>)
    \o <<"{{.ID}}", "\t", "{{.CreatedAt}}", "\t", "{{.Size}}">>
    \o (IF opts.readOnly THEN <<"\t", "{{.ReadOnly}}">> ELSE <<>>)

outputHeader_QuietIgnored(opts) ==
    IF opts.format # <<>> THEN replaceTabs(opts.format)
    ELSE defaultHeader(opts)

outputHeader(opts) ==
    IF opts.format # <<>> THEN replaceTabs(opts.format)
    ELSE IF opts.quiet THEN IDString
    ELSE defaultHeader(opts)

\* formats.Writer(out).Out(): what the template prints for one row.  The
\* fields of a row that the model does not track (Digest, CreatedAt, Size)
\* are printed as the item that names them.
fieldValue(row, item) ==
    IF item = "{{.ID}}" THEN row.ID
    ELSE IF item = NameItem THEN (IF row.Name # <<>> THEN row.Name ELSE <<"<none>">>)
    ELSE IF item = TagItem THEN (IF row.Tag # <<>> THEN row.Tag ELSE <<"<none>">>)
    ELSE IF item = "{{.Name}}" THEN row.Name
    ELSE IF item = "{{.ReadOnly}}" THEN (IF row.ReadOnly THEN <<"true">> ELSE <<"false">>)
    ELSE <<item>>

RECURSIVE renderRow(_, _)
renderRow(row, template) ==
    IF template = <<>> THEN <<>>
    ELSE IF Head(template) = "table " THEN renderRow(row, Tail(template))
    ELSE fieldValue(row, Head(template)) \o renderRow(row, Tail(template))

\* imagesHeader, lines 74-82, keyed by the item that prints the field
imagesHeader(item) ==
    IF item = NameItem THEN "REPOSITORY"
    ELSE IF item = TagItem THEN "TAG"
    ELSE IF item = "{{.Digest}}" THEN "DIGEST"
    ELSE IF item = "{{.ID}}" THEN "IMAGE ID"
    ELSE IF item = "{{.CreatedAt}}" THEN "CREATED"
    ELSE IF item = "{{.Size}}" THEN "SIZE"
    ELSE IF item = "{{.ReadOnly}}" THEN "R/O"
    ELSE item

\* the header line of a template that starts with "table "
headerLine(template) ==
    IF template # <<>> /\ Head(template) = "table "
    THEN << [i \in 1..(Len(template) - 1) |-> imagesHeader(template[i+1])] >>
    ELSE <<>>

renderRows(rows, template) ==
    headerLine(template) \o [k \in 1..Len(rows) |-> renderRow(rows[k], template)]

\* outputImages up to the point where it renders: the values of its local
\* variables after the loop and the error it returns, if any.
outputImages(imgs, filters, argName, opts) ==
    afterLoop(imagesLoop([found |-> FALSE, imagesParams |-> <<>>, jsonImages |-> <<>>,
                          readOnly |-> FALSE],
                         imgs, 1, filters, argName, opts),
              argName)

\* ---------------------------------------------------------------- formattedSize
\* An int64 is the sequence of its decimal digits, most significant first and
\* without leading zeros.  A float64 that holds a decimal fraction is the pair
\* of the digits before and after its decimal point.
suffixes == <<"B", "KB", "MB", "GB", "TB">>

\* the number whose decimal digits are d
RECURSIVE NumberOf(_)
NumberOf(d) == IF d = <<>> THEN 0 ELSE 10 * NumberOf(SubSeq(d, 1, Len(d)-1)) + d[Len(d)]

RECURSIVE PowerOfTen(_)
PowerOfTen(n) == IF n = 0 THEN 1 ELSE 10 * PowerOfTen(n-1)

RECURSIVE TrimZeros(_)
TrimZeros(d) ==
    IF d # <<>> /\ d[Len(d)] = 0 THEN TrimZeros(SubSeq(d, 1, Len(d)-1)) ELSE d

\* The decimal values d1d2d3.5, d1d2.d35 and d1.d2d35 that no float64 holds
\* and whose nearest float64 is greater than the value (for the others the
\* nearest float64 is less): the quotient formattedSize /= 1000 is that
\* nearest float64.
NearestFloat64Above ==
    { <<<<1, 0>>, <<0, 5>>>>, <<<<1, 0>>, <<1, 5>>>>, <<<<9, 9>>, <<9, 5>>>> }

\* the loop of lines 564-567: a division while the value is at least 1000,
\* at most four times
RECURSIVE scaleDown_CapGB(_, _, _)
scaleDown_CapGB(int, frac, count) ==
    IF Len(int) >= 4 /\ count < 3
    THEN scaleDown_CapGB(SubSeq(int, 1, Len(int)-3),
                         SubSeq(int, Len(int)-2, Len(int)) \o frac, count + 1)
    ELSE [int |-> int, frac |-> TrimZeros(frac), count |-> count]

RECURSIVE scaleDown(_, _, _)
scaleDown(int, frac, count) ==
    IF Len(int) >= 4 /\ count < 4
    THEN scaleDown(SubSeq(int, 1, Len(int)-3),
                   SubSeq(int, Len(int)-2, Len(int)) \o frac, count + 1)
    ELSE [int |-> int, frac |-> TrimZeros(frac), count |-> count]

\* the float64 holds the decimal int.frac exactly: frac is a multiple of 1/8
\* (frac has at most three digits where this is asked)
ExactFloat64(frac) == (NumberOf(frac) * 8) % PowerOfTen(Len(frac)) = 0

\* %.3g rounds the value to three significant digits, to the nearest and to
\* even on a tie; all holds the digits of the value, rest those after the third
roundsUp(int, frac, all, rest) ==
    IF rest[1] # 5 THEN rest[1] > 5
    ELSE IF TrimZeros(rest) # <<5>> THEN TRUE
    ELSE IF ExactFloat64(frac) THEN all[3] % 2 = 1
    ELSE <<int, frac>> \in NearestFloat64Above

\* the decimal digits of n, 100 <= n <= 1000
digitsOf(n) == IF n = 1000 THEN <<1, 0, 0, 0>> ELSE <<n \div 100, (n \div 10) % 10, n % 10>>

\* the rounded value: its digits without trailing zeros and the position dp
\* of its decimal point
rounded(n, dp) ==
    [digs |-> TrimZeros(digitsOf(n)), dp |-> IF n = 1000 THEN dp + 1 ELSE dp]

roundToThree(int, frac, all) ==
    IF all = <<0>> THEN [digs |-> <<>>, dp |-> 0]
    ELSE IF Len(all) <= 3 THEN [digs |-> TrimZeros(all), dp |-> Len(int)]
    ELSE rounded(NumberOf(SubSeq(all, 1, 3))
                    + (IF roundsUp(int, frac, all, SubSeq(all, 4, Len(all))) THEN 1 ELSE 0),
                 Len(int))

chars(d) == [i \in 1..Len(d) |-> ToString(d[i])]

\* strconv's %e with prec digits after the point
fmtE(digs, prec, exp) ==
    chars(SubSeq(digs, 1, 1))
    \o (IF prec > 0 THEN <<".">> \o chars(SubSeq(digs, 2, prec + 1)) ELSE <<>>)
    \o <<"e", "+">> \o (IF exp < 10 THEN <<"0">> ELSE <<>>) \o <<ToString(exp)>>

\* strconv's %f with prec digits after the point
fmtF(digs, prec, dp) ==
    (IF dp > 0
     THEN [i \in 1..dp |-> IF i <= Len(digs) THEN ToString(digs[i]) ELSE "0"]
     ELSE <<"0">>)
    \o (IF prec > 0 THEN <<".">> \o chars(SubSeq(digs, dp + 1, dp + prec)) ELSE <<>>)

\* strconv's %g with precision 3 for the rounded digits r (the value is zero
\* or at least 1): %e when the exponent is at least the precision, else %f,
\* trailing zeros dropped in either form
fmtG(r, nd) ==
    IF r.dp - 1 >= (IF 3 > nd /\ nd >= r.dp THEN nd ELSE 3)
    THEN fmtE(r.digs, (IF 3 > nd THEN nd ELSE 3) - 1, r.dp - 1)
    ELSE fmtF(r.digs, IF nd > r.dp THEN nd - r.dp ELSE 0, r.dp)

\* line 568, for the scaled value v
sprintf(v) ==
    fmtG(roundToThree(v.int, v.frac, v.int \o v.frac),
         Len(roundToThree(v.int, v.frac, v.int \o v.frac).digs))
    \o <<" ", suffixes[v.count + 1]>>

formattedSize(size) == sprintf(scaleDown(size, <<>>, 0))

\* ---------------------------------------------------------------- imagesCmd
\* buildahcli.VerifyFlagsArgsOrder: no option may follow the first argument
IsOption(arg) == arg # <<>> /\ Head(arg) = "-"

VerifyFlagsArgsOrder(as) == \A i \in 1..Len(as) : ~IsOption(as[i])

Fail(err) ==
    /\ result' = err
    /\ pc' = "done"

CheckArgs_AllowAll ==
    /\ pc = "start"
    /\ IF Len(args) > 0 /\ ~VerifyFlagsArgsOrder(args)
       THEN Fail(Errorf("No options (%s) can be specified after the image or container name", <<>>))
            /\ UNCHANGED nameArg
       ELSE IF Len(args) > 1
       THEN Fail(Errorf("'buildah images' requires at most 1 argument", <<>>))
            /\ UNCHANGED nameArg
       ELSE /\ nameArg' = IF Len(args) = 1 THEN args[1] ELSE <<>>
            /\ pc' = "getStore"
            /\ UNCHANGED result
    /\ UNCHANGED <<args, iopts, store, storeOpened, enumerated, images, params,
                   iterated, found, imagesParams, jsonImages, printed, filterRes, call, ret>>

\* lines 119-133
CheckArgs ==
    /\ pc = "start"
    /\ IF Len(args) > 0 /\ iopts.all
       THEN Fail(Errorf("when using the --all switch, you may not pass any images names or IDs", <<>>))
            /\ UNCHANGED nameArg
       ELSE IF Len(args) > 0 /\ ~VerifyFlagsArgsOrder(args)
       THEN Fail(Errorf("No options (%s) can be specified after the image or container name", <<>>))
            /\ UNCHANGED nameArg
       ELSE IF Len(args) > 1
       THEN Fail(Errorf("'buildah images' requires at most 1 argument", <<>>))
            /\ UNCHANGED nameArg
       ELSE /\ nameArg' = IF Len(args) = 1 THEN args[1] ELSE <<>>
            /\ pc' = "getStore"
            /\ UNCHANGED result
    /\ UNCHANGED <<args, iopts, store, storeOpened, enumerated, images, params,
                   iterated, found, imagesParams, jsonImages, printed, filterRes, call, ret>>

\* lines 135-138
GetStore ==
    /\ pc = "getStore"
    /\ \E ok \in BOOLEAN :
         IF ok THEN storeOpened' = TRUE /\ pc' = "systemContext" /\ UNCHANGED result
         ELSE Fail(Errorf("getStore", <<>>)) /\ UNCHANGED storeOpened
    /\ UNCHANGED <<args, iopts, store, enumerated, images, params, nameArg,
                   iterated, found, imagesParams, jsonImages, printed, filterRes, call, ret>>

\* lines 140-143
SystemContext ==
    /\ pc = "systemContext"
    /\ \E ok \in BOOLEAN :
         IF ok THEN pc' = "images" /\ UNCHANGED result
         ELSE Fail(Wrapf(Errorf("SystemContextFromOptions", <<>>), "error building system context"))
    /\ UNCHANGED <<args, iopts, store, storeOpened, enumerated, images, params, nameArg,
                   iterated, found, imagesParams, jsonImages, printed, filterRes, call, ret>>

\* lines 145-148
StoreImages ==
    /\ pc = "images"
    /\ enumerated' = TRUE
    /\ \E ok \in BOOLEAN :
         IF ok THEN images' = store /\ pc' = "quietFormat" /\ UNCHANGED result
         ELSE Fail(Wrapf(Errorf("store.Images", <<>>), "error reading images")) /\ UNCHANGED images
    /\ UNCHANGED <<args, iopts, store, storeOpened, params, nameArg,
                   iterated, found, imagesParams, jsonImages, printed, filterRes, call, ret>>

\* lines 150-152
CheckQuietFormat ==
    /\ pc = "quietFormat"
    /\ IF iopts.quiet /\ iopts.format # <<>>
       THEN Fail(Errorf("quiet and format are mutually exclusive", <<>>))
       ELSE pc' = "parseFilter" /\ UNCHANGED result
    /\ UNCHANGED <<args, iopts, store, storeOpened, enumerated, images, params, nameArg,
                   iterated, found, imagesParams, jsonImages, printed, filterRes, call, ret>>

ParseFilter_IgnoreError ==
    /\ pc = "parseFilter"
    /\ IF iopts.filter # <<>>
       THEN \E parsed \in {parseFilter(images, iopts.filter)} :
            /\ filterRes' = parsed.res
            /\ params' = parsed.params /\ pc' = "outputImages" /\ UNCHANGED result
       ELSE pc' = "outputImages" /\ UNCHANGED <<params, result, filterRes>>
    /\ UNCHANGED <<args, iopts, store, storeOpened, enumerated, images, nameArg,
                   iterated, found, imagesParams, jsonImages, printed, call, ret>>

\* lines 165-171
ParseFilter ==
    /\ pc = "parseFilter"
    /\ IF iopts.filter # <<>>
       THEN \E parsed \in {parseFilter(images, iopts.filter)} :
            /\ filterRes' = parsed.res
            /\ IF parsed.res.kind = "ok"
               THEN params' = parsed.params /\ pc' = "outputImages" /\ UNCHANGED result
               ELSE IF parsed.res.kind = "panic"
               THEN Fail(Panic) /\ UNCHANGED params
               ELSE Fail(Wrapf(parsed.res, "error parsing filter")) /\ UNCHANGED params
       ELSE pc' = "outputImages" /\ UNCHANGED <<params, result, filterRes>>
    /\ UNCHANGED <<args, iopts, store, storeOpened, enumerated, images, nameArg,
                   iterated, found, imagesParams, jsonImages, printed, call, ret>>

\* lines 154-162
imageOptions(io) ==
    [all |-> io.all, digests |-> io.digests, format |-> io.format, json |-> io.json,
     noHeading |-> io.noHeading, truncate |-> ~io.truncate, quiet |-> io.quiet,
     readOnly |-> FALSE]

\* line 173 and outputImages, lines 269-414
OutputImages ==
    /\ pc = "outputImages"
    /\ \E out \in {outputImages(images, params, nameArg, imageOptions(iopts))} :
           /\ iterated' = TRUE
           /\ found' = out.acc.found
           /\ jsonImages' = out.acc.jsonImages
           /\ result' = out.res
           /\ pc' = "done"
           /\ IF out.res.kind = "error"
              THEN imagesParams' = out.acc.imagesParams /\ printed' = NoOutput
              ELSE IF iopts.json
              THEN /\ imagesParams' = out.acc.imagesParams
                   /\ printed' = [kind |-> "json", rows |-> out.acc.jsonImages,
                                  format |-> <<>>, lines |-> <<>>]
              ELSE \E sorted \in sortImagesOutput(out.acc.imagesParams) :
                   \E template \in {outputHeader([imageOptions(iopts) EXCEPT
                                                     !.readOnly = out.acc.readOnly])} :
                       /\ imagesParams' = sorted
                       /\ printed' = [kind |-> "table", rows |-> sorted,
                                      format |-> template,
                                      lines |-> renderRows(sorted, template)]
    /\ UNCHANGED <<args, iopts, store, storeOpened, enumerated, images, params, nameArg,
                   filterRes, call, ret>>

Next ==
    \/ CheckArgs
    \/ GetStore
    \/ SystemContext
    \/ StoreImages
    \/ CheckQuietFormat
    \/ ParseFilter
    \/ OutputImages

\* ---------------------------------------------------------------- idle parts
\* State of the command while a single function is called directly, and of
\* the direct call while the command runs.
CmdIdle ==
    /\ pc = "idle" /\ args = <<>> /\ iopts = <<>> /\ store = <<>>
    /\ storeOpened = FALSE /\ enumerated = FALSE /\ images = <<>>
    /\ params = NilParams /\ iterated = FALSE /\ found = FALSE /\ filterRes = NoResult
    /\ imagesParams = <<>> /\ jsonImages = <<>> /\ printed = NoOutput
    /\ result = NoResult /\ nameArg = <<>>

NoCall == [fn |-> "none"]

\* ---------------------------------------------------------------- Spec
\* The command run on generated arguments, flags and stores.
SeqsUpTo(S, n) == UNION {[1..k -> S] : k \in 0..n}

ArgTokens == {<<"image">>, <<"myrepo", "/", "image">>, <<"missing">>, <<"-", "q">>}

CmdNameLists ==
    { << <<"image">> >>,
      << <<"reg.io", "/", "myrepo", "/", "image", ":", "v1">>, <<"image", ":", "v2">> >>,
      << <<"Image">>, <<>> >> }

CmdImages ==
    {Image(<<>>, 1, FALSE, Inspect(1, {}), parent) : parent \in {"yes", "no"}}
    \cup {Image(names, Len(names[1]), FALSE, Inspect(Len(names[1]), {}), "no") :
             names \in CmdNameLists}

CmdFilters ==
    { <<>>,
      <<"dangling", "=", "true">>,
      <<"dangling", "=", "false">>,
      <<"reference", "=", "image", ":", "v2">>,
      <<"bogus", "=", "1">> }

CmdStart ==
    /\ pc = "start"
    /\ storeOpened = FALSE /\ enumerated = FALSE /\ images = <<>>
    /\ params = NilParams /\ iterated = FALSE /\ found = FALSE /\ filterRes = NoResult
    /\ imagesParams = <<>> /\ jsonImages = <<>> /\ printed = NoOutput
    /\ result = NoResult /\ nameArg = <<>>
    /\ call = NoCall /\ ret = <<>>

Init ==
    /\ CmdStart
    /\ args \in SeqsUpTo(ArgTokens, MaxArgs)
    /\ iopts \in [all : BOOLEAN, quiet : BOOLEAN, json : BOOLEAN,
                  digests : {FALSE}, noHeading : {FALSE}, truncate : {FALSE},
                  format : {<<>>, <<"{{.ID}}">>}, filter : CmdFilters]
    /\ store \in SeqsUpTo(CmdImages, MaxImages)

Spec == Init /\ [][Next]_vars

NothingEmitted == printed = NoOutput /\ imagesParams = <<>> /\ jsonImages = <<>>

UsageErrors ==
    {"when using the --all switch, you may not pass any images names or IDs",
     "No options (%s) can be specified after the image or container name",
     "'buildah images' requires at most 1 argument"}

\* C1 (as claimed): an execution that ends in the error "quiet and format are
\* mutually exclusive" has neither opened the store nor enumerated its images.
C1_QuietFormatBeforeStore ==
    (pc = "done" /\ result.kind = "error"
        /\ result.fmt = "quiet and format are mutually exclusive")
    => (~storeOpened /\ ~enumerated)

\* C2: with a NAME and --all, or with more than one positional argument, the
\* command ends in a usage error, before the store is opened or enumerated and
\* without emitting a row.
C2_UsageErrorBeforeStore ==
    (pc # "start" /\ (Len(args) > 1 \/ (Len(args) >= 1 /\ iopts.all)))
    => /\ pc = "done"
       /\ result.kind = "error" /\ result.fmt \in UsageErrors
       /\ ~storeOpened /\ ~enumerated
       /\ NothingEmitted

\* a NAME with --all has been rejected
C2_Witness ==
    /\ pc = "done" /\ Len(args) = 1 /\ iopts.all /\ ~IsOption(args[1])
    /\ result.fmt = "when using the --all switch, you may not pass any images names or IDs"

\* some name of some stored image matches NAME
SomeNameMatches(imgs, argName) ==
    \E i \in 1..Len(imgs) : \E j \in 1..Len(imgs[i].Names) :
        matchesReference(imgs[i].Names[j], argName)

\* C5: with a NAME, the command fails with "No such image NAME" iff no name
\* of any record matches NAME; found is set by a name match whether or not
\* the name passes the filter; on that error nothing is rendered.
C5_NotFoundIffNoNameMatches ==
    (pc = "done" /\ iterated /\ nameArg # <<>>)
    => /\ found <=> SomeNameMatches(images, nameArg)
       /\ (result = Errorf("No such image %s", <<nameArg>>)) <=> ~SomeNameMatches(images, nameArg)
       /\ result.kind = "error" => printed = NoOutput
       /\ result.kind = "ok" <=> SomeNameMatches(images, nameArg)

\* NAME matched a name that the filter then rejected: the command succeeds
\* with an empty listing
C5_Witness ==
    /\ pc = "done" /\ iterated /\ nameArg # <<>> /\ ~params.nil
    /\ found /\ result.kind = "ok"
    /\ printed.kind = "table" /\ printed.rows = <<>>

\* number of rows of the record with ID id
RowsOf(id) ==
    Cardinality({k \in 1..Len(imagesParams) :
                    imagesParams[k].ID = displayedID(imageID(id), imageOptions(iopts))})

\* name n of image is rejected by the projection
Rejected(image, n) ==
    \/ n = <<>>
    \/ ~ParseNormalizedNamed(n).ok
    \/ ~matchesReference(n, nameArg)
    \/ ~matchesFilter(image, n, params)

NamedRecordRows(i) ==
    Len(images[i].Names) >= 1 =>
        /\ RowsOf(i) <= Len(images[i].Names)
        /\ (\A j \in 1..Len(images[i].Names) : Rejected(images[i], images[i].Names[j]))
              => RowsOf(i) = 0

OneEmptyRow(i) ==
    /\ RowsOf(i) = 1
    /\ \A k \in 1..Len(imagesParams) :
          imagesParams[k].ID = displayedID(imageID(i), imageOptions(iopts))
              => imagesParams[k].Name = <<>> /\ imagesParams[k].Tag = <<>>

\* C10 (as claimed): in table mode a record with no names and an absent
\* FilterSet gives exactly one row, with empty name and tag; a record with
\* N >= 1 names gives at most N rows, and none when every name is rejected.
C10_RowsPerRecord_Claimed ==
    (pc = "done" /\ iterated /\ ~iopts.json)
    => \A i \in 1..Len(images) :
          /\ (images[i].Names = <<>> /\ params.nil) => OneEmptyRow(i)
          /\ NamedRecordRows(i)

\* C10 (amended): the record with no names gives its one empty row unless it
\* is suppressed as an intermediate image (--all unset and the record is the
\* parent of another image), in which case it gives none.
C10_RowsPerRecord ==
    (pc = "done" /\ iterated /\ ~iopts.json)
    => \A i \in 1..Len(images) :
          /\ (images[i].Names = <<>> /\ params.nil) =>
                IF ~iopts.all /\ images[i].parent = "yes"
                THEN RowsOf(i) = 0
                ELSE OneEmptyRow(i)
          /\ NamedRecordRows(i)

\* a listing with the empty row of an unnamed record and one row of a record
\* that has two names
C10_Witness ==
    /\ pc = "done" /\ iterated /\ ~iopts.json /\ ~iopts.quiet /\ params.nil
    /\ \E i \in 1..Len(images) : images[i].Names = <<>> /\ RowsOf(i) = 1
    /\ \E i \in 1..Len(images) : Len(images[i].Names) = 2 /\ RowsOf(i) = 1

\* ---------------------------------------------------------------- SpecList
\* The command run on stores whose records differ in their names, creation
\* times, read-only flags, lineage and inspectability, under every
\* combination of the output flags.
ListImages ==
    { Image(<< <<"image">> >>, 2, FALSE, Inspect(3, {<< <<"k">>, <<"v">> >>}), "no"),
      Image(<< <<"reg.io", "/", "myrepo", "/", "image", ":", "v1">>, <<"image", ":", "v2">> >>,
            1, FALSE, InspectFails, "no"),
      Image(<< <<"myrepo">> >>, 6, TRUE, Inspect(6, {}), "no"),
      Image(<<>>, 5, FALSE, InspectFails, "error") }
    \cup {Image(<<>>, 4, TRUE, Inspect(4, {}), parent) : parent \in {"yes", "no"}}

ListArgs == { <<>>, << <<"image">> >>, << <<"missing">> >> }

ListFilters ==
    { <<>>,
      <<"readonly", "=", "false">>,
      <<"dangling", "=", "false">>,
      <<"label", "=", "k", "=", "v">> }

ListFormats == { <<>>, <<"{{.ID}}", "\\t", "{{.Name}}">> }

\* --digests and --noheading only add to the default template: they are set
\* together
ListFlags ==
    {io \in [all : BOOLEAN, quiet : BOOLEAN, json : BOOLEAN,
             digests : BOOLEAN, noHeading : BOOLEAN, truncate : BOOLEAN,
             format : ListFormats, filter : ListFilters] :
        io.digests = io.noHeading}

InitList ==
    /\ CmdStart
    /\ args \in ListArgs
    /\ iopts \in ListFlags
    /\ store \in SeqsUpTo(ListImages, MaxImages)

SpecList == InitList /\ [][Next]_vars

\* outputImages returned without an error: the listing was emitted
Listed == pc = "done" /\ iterated /\ result.kind = "ok"

\* the creation time shown for a record: that of its configuration when the
\* configuration can be read and has one, else that of the store record
ShownTime(image) ==
    IF image.inspect.ok /\ image.inspect.Created # 0 THEN image.inspect.Created
    ELSE image.Created

DistinctTimes ==
    \A i, j \in 1..Len(images) :
        i # j => /\ images[i].Created # images[j].Created
                 /\ ShownTime(images[i]) # ShownTime(images[j])

\* C11 (as claimed): when the stored records have pairwise distinct creation
\* times, the listing emitted in any output mode is in descending order of
\* the creation time shown, strictly so between entries of different records.
C11_SortedDescending ==
    (Listed /\ DistinctTimes) =>
        \A k, l \in 1..Len(printed.rows) :
            k < l => /\ printed.rows[k].CreatedAtRaw >= printed.rows[l].CreatedAtRaw
                     /\ printed.rows[k].ID # printed.rows[l].ID
                            => printed.rows[k].CreatedAtRaw > printed.rows[l].CreatedAtRaw

\* record i is suppressed as an intermediate image
Suppressed(i) == ~iopts.all /\ images[i].Names = <<>> /\ images[i].parent = "yes"

\* record i survives suppression and filtering
Survives(i) ==
    /\ ~Suppressed(i)
    /\ IF images[i].Names = <<>> THEN matchesFilter(images[i], <<>>, params)
       ELSE \E j \in 1..Len(images[i].Names) : ~Rejected(images[i], images[i].Names[j])

JsonEntriesOf(i) ==
    Cardinality({k \in 1..Len(jsonImages) : jsonImages[k].ID = imageID(i)})

\* the rows of the table mode run on the same store, NAME and filter
TableRowsFor(opts) == outputImages(images, params, nameArg, opts).acc.imagesParams

\* the records with at least one row among rows
RecordsOf(rows, opts) ==
    {i \in 1..Len(images) :
        \E k \in 1..Len(rows) : rows[k].ID = displayedID(imageID(i), opts)}

\* the records with at least one row in that run
TableRecords(opts) == RecordsOf(TableRowsFor(opts), opts)

\* C12: in JSON mode the output holds exactly one entry for every record that
\* survives suppression and filtering, however many of its names match, and
\* none for any other record; the records reported are those that get at
\* least one row in table mode for the same store, NAME and filter.
C12_JsonOnePerRecord ==
    (Listed /\ iopts.json) =>
        /\ printed.kind = "json" /\ printed.rows = jsonImages
        /\ \A i \in 1..Len(images) : JsonEntriesOf(i) = IF Survives(i) THEN 1 ELSE 0
        /\ Len(jsonImages) = Cardinality({i \in 1..Len(images) : Survives(i)})
        /\ {i \in 1..Len(images) : JsonEntriesOf(i) >= 1}
              = TableRecords([imageOptions(iopts) EXCEPT !.json = FALSE])

\* a record both of whose names match NAME is reported once
C12_Witness ==
    /\ Listed /\ iopts.json /\ ~iopts.quiet /\ nameArg = <<"image">>
    /\ \E i \in 1..Len(images) :
          /\ Len(images[i].Names) = 2
          /\ \A j \in 1..2 : ~Rejected(images[i], images[i].Names[j])
          /\ JsonEntriesOf(i) = 1

\* the rendered template is the default one (no custom format, not quiet)
DefaultTable == Listed /\ ~iopts.json /\ iopts.format = <<>> /\ ~iopts.quiet

HasColumn(item) == \E i \in 1..Len(printed.format) : printed.format[i] = item

\* C13 (as claimed): in default table mode the ReadOnly column is rendered
\* iff at least one emitted row has its read-only flag set.
C13_ReadOnlyColumn ==
    DefaultTable =>
        (HasColumn("{{.ReadOnly}}")
            <=> \E k \in 1..Len(printed.rows) : printed.rows[k].ReadOnly)

\* the table mode run with --quiet
QuietTable == Listed /\ ~iopts.json /\ iopts.quiet

\* the identifier of record i: the full ID with its sha256: prefix under
\* --no-trunc, else its first idTruncLength characters
IdentifierOf(i) ==
    IF iopts.truncate THEN <<"sha256:">> \o imageID(i)
    ELSE SubSeq(imageID(i), 1, idTruncLength)

\* C14: with --quiet in table mode every record that survives suppression
\* and filtering gives exactly one row, however many of its names match, any
\* other record gives none, and the lines printed are the identifiers of the
\* rows and nothing else; a store that holds a single image gives a single
\* line, the identifier of that image.
C14_QuietOneRowPerRecord ==
    QuietTable =>
        /\ \A i \in 1..Len(images) : RowsOf(i) = IF Survives(i) THEN 1 ELSE 0
        /\ Len(printed.rows) = Cardinality({i \in 1..Len(images) : Survives(i)})
        /\ Len(printed.lines) = Len(printed.rows)
        /\ \A k \in 1..Len(printed.rows) :
              /\ printed.lines[k] = printed.rows[k].ID
              /\ \E i \in 1..Len(images) : printed.lines[k] = IdentifierOf(i)
        /\ (Len(images) = 1 /\ Survives(1)) => printed.lines = <<IdentifierOf(1)>>

\* a record both of whose names match gives one line, its truncated ID
C14_Witness ==
    /\ QuietTable /\ ~iopts.truncate /\ Len(images) = 1
    /\ Len(images[1].Names) = 2
    /\ \A j \in 1..2 : ~Rejected(images[1], images[1].Names[j])
    /\ printed.lines = << SubSeq(imageID(1), 1, idTruncLength) >>

\* record i is listed: it has a row in table mode, an entry in JSON mode
ListedRecord(i) == IF iopts.json THEN JsonEntriesOf(i) >= 1 ELSE RowsOf(i) >= 1

\* record i passes the filter under one of its display names
PassesFilter(i) ==
    IF images[i].Names = <<>> THEN matchesFilter(images[i], <<>>, params)
    ELSE \E j \in 1..Len(images[i].Names) : ~Rejected(images[i], images[i].Names[j])

\* C17: a record is left out as an intermediate image exactly when --all is
\* unset, it has no names and the lineage lookup says it is a parent; with
\* --all none is left out for this reason; a record whose lineage lookup or
\* inspection fails is treated as not a parent, and the failure does not
\* abort the listing: the run ends without an error unless NAME matches no
\* name, and every other record is listed as it would be otherwise.
C17_IntermediateSkip ==
    /\ (pc = "done" /\ iterated) =>
          (result.kind = "ok" \/ (nameArg # <<>> /\ ~SomeNameMatches(images, nameArg)))
    /\ Listed =>
          \A i \in 1..Len(images) :
             /\ PassesFilter(i) =>
                   (~ListedRecord(i) <=>
                       (~iopts.all /\ images[i].Names = <<>> /\ images[i].parent = "yes"))
             /\ ~PassesFilter(i) => ~ListedRecord(i)
             /\ (iopts.all \/ images[i].parent = "error") => (ListedRecord(i) <=> PassesFilter(i))

\* the lineage lookup of the first record and the inspection of the second
\* fail; both records are listed
C17_Witness ==
    /\ Listed /\ ~iopts.all /\ Len(images) = 2
    /\ images[1].Names = <<>> /\ images[1].parent = "error"
    /\ images[2].Names # <<>> /\ ~images[2].inspect.ok
    /\ ListedRecord(1) /\ ListedRecord(2)

\* C19 (as claimed): when NAME is given and the command succeeds, every
\* record that is listed has a name that matches NAME; a record with no names
\* is never listed.
C19_NameQueryListsMatches ==
    (Listed /\ nameArg # <<>>) =>
        \A i \in 1..Len(images) :
            ListedRecord(i) =>
                /\ images[i].Names # <<>>
                /\ \E j \in 1..Len(images[i].Names) :
                      matchesReference(images[i].Names[j], nameArg)

\* ---------------------------------------------------------------- SpecFilter
\* The command run on generated filter strings.
ClauseKeys ==
    {<<"dangling">>, <<"label">>, <<"before">>, <<"since">>, <<"reference">>,
     <<"readonly">>, <<"bogus">>, <<" ", "dangling">>}

ClauseValues == {<<>>, <<"=", "true">>, <<"=", "x">>, <<"=", "image">>}

Clauses == {<<>>} \cup {k \o v : k \in ClauseKeys, v \in ClauseValues}

FilterStrings ==
    {Join(cs, ",") : cs \in UNION {[1..k -> Clauses] : k \in 1..MaxClauses}} \ {<<>>}

FilterStores ==
    { << Image(<< <<"image">> >>, 2, FALSE, Inspect(2, {<< <<"x">>, <<"v">> >>}), "no"),
         Image(<<>>, 1, TRUE, Inspect(1, {}), "no") >>,
      << Image(<< <<"image">> >>, 2, FALSE, InspectFails, "no") >> }

InitFilter ==
    /\ CmdStart
    /\ args = <<>>
    /\ iopts \in [all : {FALSE}, quiet : {FALSE}, json : {FALSE},
                  digests : {FALSE}, noHeading : {FALSE}, truncate : {FALSE},
                  format : {<<>>}, filter : FilterStrings]
    /\ store \in FilterStores

SpecFilter == InitFilter /\ [][Next]_vars

RecognizedKeys ==
    {<<"dangling">>, <<"label">>, <<"before">>, <<"since">>, <<"reference">>, <<"readonly">>}

ClauseRawKey(c) == SplitN2(c, "=")[1]
ClauseKey(c) == TrimSpace(ClauseRawKey(c))
ClauseHasValue(c) == Contains(c, "=")
ClauseValue(c) == SplitN2(c, "=")[2]

\* the clause has a key outside the recognized set, or is a dangling or
\* readonly clause whose value is not "true" or "false"
Offending(c) ==
    \/ ClauseKey(c) \notin RecognizedKeys
    \/ /\ ClauseKey(c) \in {<<"dangling">>, <<"readonly">>}
       /\ ClauseHasValue(c)
       /\ ClauseValue(c) \notin {<<"true">>, <<"false">>}

\* the clause is a before or since clause whose argument no stored image matches
Unresolved(c) ==
    /\ ClauseKey(c) \in {<<"before">>, <<"since">>}
    /\ ClauseHasValue(c)
    /\ ~SomeNameMatches(images, ClauseValue(c))

\* the clause parses: recognized key, a value, a boolean where one is due, a
\* reference that resolves to an inspectable image where one is due
WellFormed(c) ==
    /\ ClauseKey(c) \in RecognizedKeys
    /\ ClauseHasValue(c)
    /\ ClauseKey(c) \in {<<"dangling">>, <<"readonly">>} => ClauseValue(c) \in {<<"true">>, <<"false">>}
    /\ ClauseKey(c) \in {<<"before">>, <<"since">>} => setFilterDate(images, ClauseValue(c)).ok

FilterClauses == Split(iopts.filter, ",")

\* parseFilter was called: it returned or it crashed
ParseFilterCalled == filterRes.kind # "none"

\* parseFilter returned, a FilterSet or an error
ParseFilterReturned == filterRes.kind \in {"ok", "error"}

AbortedByFilter ==
    /\ pc = "done" /\ result = Wrapf(filterRes, "error parsing filter")
    /\ ~iterated /\ NothingEmitted

InvalidFilterError ==
    /\ filterRes.kind = "error"
    /\ filterRes.fmt \in {"invalid filter: '%s'", "invalid filter: '%s=[%s]'"}

\* C3 (as claimed): whenever the filter string contains an offending clause,
\* what parseFilter returns is an invalid-filter error naming the key of an offending
\* clause and the command aborts without iterating or emitting a row.
C3_InvalidFilter_Claimed ==
    (ParseFilterReturned /\ \E i \in 1..Len(FilterClauses) : Offending(FilterClauses[i]))
    => /\ InvalidFilterError
       /\ \E i \in 1..Len(FilterClauses) :
             Offending(FilterClauses[i]) /\ filterRes.args[1] = ClauseRawKey(FilterClauses[i])
       /\ AbortedByFilter

\* C3 (amended): when every clause before the offending clause parses,
\* parseFilter returns an invalid-filter error naming the key of that clause
\* and the command aborts without iterating or emitting a row.
C3_InvalidFilter ==
    ParseFilterCalled =>
        \A i \in 1..Len(FilterClauses) :
            (Offending(FilterClauses[i]) /\ \A j \in 1..(i-1) : WellFormed(FilterClauses[j]))
            => /\ InvalidFilterError
               /\ filterRes.args[1] = ClauseRawKey(FilterClauses[i])
               /\ AbortedByFilter

\* an unrecognized key after a clause that parses
C3_Witness ==
    /\ ParseFilterCalled /\ Len(FilterClauses) = 2
    /\ WellFormed(FilterClauses[1])
    /\ ClauseKey(FilterClauses[2]) = <<"bogus">>
    /\ filterRes.args = << <<"bogus">> >>
    /\ pc = "done"

\* C4 (as claimed): when the first clause that does not parse is a before or
\* since clause whose argument matches no stored image, parseFilter fails with
\* a not-found error that names that argument, and the command aborts before
\* iterating.
C4_NotFoundNamesArgument ==
    ParseFilterCalled =>
        \A i \in 1..Len(FilterClauses) :
            (Unresolved(FilterClauses[i]) /\ \A j \in 1..(i-1) : WellFormed(FilterClauses[j]))
            => /\ filterRes.kind = "error"
               /\ filterRes.fmt = "no such id: %s"
               /\ filterRes.args = <<ClauseValue(FilterClauses[i])>>
               /\ AbortedByFilter

\* C18 (as claimed): parseFilter is total: whenever it is called it returns a
\* FilterSet or an error value, and the command does not crash.
C18_ParseFilterTotal ==
    /\ ParseFilterCalled => ParseFilterReturned
    /\ result.kind # "panic"

\* ---------------------------------------------------------------- SpecPred
\* matchesFilter called with the FilterSet parsed from a generated filter
\* string, on the second record of a store whose first record is the image
\* named "image".
LabelSets ==
    { {},
      {<< <<"k">>, <<"v">> >>},
      {<< <<"k">>, <<"w">> >>},
      {<< <<"k">>, <<"v">> >>, << <<"x">>, <<"v">> >>} }

Times == 0..MaxTime

ReferenceImages ==
    {Image(<< <<"image">> >>, t, FALSE, Inspect(t, {}), "no") : t \in Times}

RecordsUnderTest ==
    {Image(names, created, readOnly, Inspect(created, labels), "no") :
        names \in {<<>>, << <<"myrepo">> >>}, created \in Times,
        readOnly \in BOOLEAN, labels \in LabelSets}
    \cup {Image(<<>>, created, FALSE, InspectFails, "no") : created \in Times}

PredClauses ==
    { <<"label", "=", "k">>, <<"label", "=", "k", "=", "v">>,
      <<"label", "=", "x">>, <<"label", "=", "k", "=">>,
      <<"before", "=", "image">>, <<"since", "=", "image">>,
      <<"dangling", "=", "true">>, <<"dangling", "=", "false">>,
      <<"readonly", "=", "true">>, <<"readonly", "=", "false">>,
      <<"reference", "=", "myrepo">> }

PredFilters ==
    {Join(cs, ",") : cs \in UNION {[1..k -> PredClauses] : k \in 0..MaxClauses}}

\* lines 165-171: the FilterSet of a filter string, absent for the empty one
filterSetOf(imgs, filter) ==
    IF filter = <<>> THEN [res |-> Success, params |-> NilParams]
    ELSE parseFilter(imgs, filter)

InitPred ==
    /\ CmdIdle
    /\ call \in [fn : {"matchesFilter"},
                 images : {<<ref, rec>> : ref \in ReferenceImages, rec \in RecordsUnderTest},
                 index : {2},
                 filter : PredFilters]
    /\ ret = <<>>

\* the display name matchesFilter is called with for a record: each of its
\* names, or the empty string when it has none
DisplayNames(image) ==
    IF image.Names = <<>> THEN {<<>>} ELSE {image.Names[j] : j \in 1..Len(image.Names)}

CallMatchesFilter ==
    /\ call.fn = "matchesFilter" /\ ret = <<>>
    /\ \E parsed \in {filterSetOf(call.images, call.filter)} :
       \E n \in DisplayNames(call.images[call.index]) :
          ret' = <<[res |-> parsed.res, params |-> parsed.params, name |-> n,
                    matched |-> IF parsed.res.kind = "ok"
                                THEN matchesFilter(call.images[call.index], n, parsed.params)
                                ELSE FALSE]>>
    /\ UNCHANGED <<call, cmdVars>>

NextPred == CallMatchesFilter

SpecPred == InitPred /\ [][NextPred]_vars

FilterEvaluated == call.fn = "matchesFilter" /\ ret # <<>> /\ ret[1].res.kind = "ok"

Record == call.images[call.index]

\* the filter is the single clause label=<predicate>, predicate not empty
IsLabelFilter ==
    /\ ~Contains(call.filter, ",")
    /\ ClauseKey(call.filter) = <<"label">>
    /\ ClauseHasValue(call.filter) /\ ClauseValue(call.filter) # <<>>

LabelPredicate == ClauseValue(call.filter)

\* C6 (as claimed): the label predicate matches iff the inspected labels hold
\* the predicate's key and, only when the predicate was given as key=value,
\* that label's value equals the given value.
C6_LabelPredicate ==
    (FilterEvaluated /\ IsLabelFilter)
    => (ret[1].matched <=>
          /\ Record.inspect.ok
          /\ \E kv \in Record.inspect.Labels :
                /\ kv[1] = SplitN2(LabelPredicate, "=")[1]
                /\ Contains(LabelPredicate, "=") => kv[2] = SplitN2(LabelPredicate, "=")[2])

IsBeforeFilter == call.filter = <<"before", "=", "image">>
IsSinceFilter == call.filter = <<"since", "=", "image">>

\* the timestamp the reference image resolves to
ReferenceTime == call.images[1].inspect.Created

FilterSet == ret[1].params
DisplayName == ret[1].name

\* what each predicate of the FilterSet asks of the record and display name
DanglingPasses == (FilterSet.dangling = <<"true">>) <=> (DisplayName = <<>>)
ReadOnlyPasses == (FilterSet.readOnly = <<"true">>) <=> Record.ReadOnly
BeforePasses == Record.Created = 0 \/ Record.Created < FilterSet.beforeDate
SincePasses == Record.Created = 0 \/ Record.Created > FilterSet.sinceDate
LabelPasses == matchesLabel(Record, FilterSet.label)
ReferencePasses == matchesReference(DisplayName, FilterSet.referencePattern)

AllSpecifiedPass ==
    /\ FilterSet.dangling # <<>> => DanglingPasses
    /\ FilterSet.label # <<>> => LabelPasses
    /\ FilterSet.beforeImage # <<>> => BeforePasses
    /\ FilterSet.sinceImage # <<>> => SincePasses
    /\ FilterSet.referencePattern # <<>> => ReferencePasses
    /\ FilterSet.readOnly # <<>> => ReadOnlyPasses

\* C16: matchesFilter is true for an absent FilterSet, and else true iff
\* every predicate the FilterSet specifies passes; readonly=true matches
\* exactly the records whose read-only flag is set, dangling=true exactly the
\* empty display name and dangling=false exactly the non-empty ones.
C16_Conjunctive ==
    FilterEvaluated =>
        /\ FilterSet.nil => ret[1].matched
        /\ ~FilterSet.nil => (ret[1].matched <=> AllSpecifiedPass)
        /\ call.filter = <<"readonly", "=", "true">> => (ret[1].matched <=> Record.ReadOnly)
        /\ call.filter = <<"dangling", "=", "true">> => (ret[1].matched <=> DisplayName = <<>>)
        /\ call.filter = <<"dangling", "=", "false">> => (ret[1].matched <=> DisplayName # <<>>)

\* a read-only record with no names fails readonly=true,dangling=false
\* although its read-only predicate passes
C16_Witness ==
    /\ FilterEvaluated
    /\ call.filter = <<"dangling", "=", "false", ",", "readonly", "=", "true">>
    /\ Record.ReadOnly /\ DisplayName = <<>>
    /\ ~ret[1].matched

\* ---------------------------------------------------------------- SpecRef
\* matchesReference called on generated candidate names and patterns.
NameWords == {"image", "myrepo", "Image"}
PatternWords == {"image", "myrepo"}
NameDomains == {<<>>, <<"reg.io", "/">>, <<"reg.io", ":", "5000", "/">>}
NameTags == {<<>>, <<":", "v1">>}
PatternTags == {<<>>, <<":", "v1">>, <<":", "v2">>}
NameDigests == {<<>>, <<"@", "sha256", ":", "abc">>}

RECURSIVE PathsOf(_, _)
PathsOf(words, depth) ==
    IF depth = 1 THEN {<<w>> : w \in words}
    ELSE PathsOf(words, depth-1) \cup
         {p \o <<"/", w>> : p \in PathsOf(words, depth-1), w \in words}

CandidateNames ==
    {<<>>} \cup {d \o p \o t \o g : d \in NameDomains, p \in PathsOf(NameWords, MaxPathDepth),
                                   t \in NameTags, g \in NameDigests}

Patterns ==
    {<<>>} \cup {d \o p \o t : d \in NameDomains, p \in PathsOf(PatternWords, MaxPathDepth),
                              t \in PatternTags}

InitRef ==
    /\ CmdIdle
    /\ call \in {[fn |-> "matchesReference", imageName |-> c, argName |-> p] :
                   c \in CandidateNames, p \in Patterns}
    /\ ret = <<>>

CallMatchesReference ==
    /\ call.fn = "matchesReference" /\ ret = <<>>
    /\ ret' = <<matchesReference(call.imageName, call.argName)>>
    /\ UNCHANGED <<call, cmdVars>>

NextRef == CallMatchesReference

SpecRef == InitRef /\ [][NextRef]_vars

RefReturned == call.fn = "matchesReference" /\ ret # <<>>

\* s ends with "/" followed by suffix
EndsWithSlash(s, suffix) ==
    \E i \in 1..Len(s) : s[i] = "/" /\ SubSeq(s, i+1, Len(s)) = suffix

\* position of the last ":" of s, 0 when there is none
LastColon(s) ==
    IF \E i \in 1..Len(s) : s[i] = ":"
    THEN CHOOSE i \in 1..Len(s) : s[i] = ":" /\ \A j \in (i+1)..Len(s) : s[j] # ":"
    ELSE 0

\* the repository part and the tag part of a pattern that has a tag
PatternRepository(p) == SubSeq(p, 1, LastColon(p) - 1)
PatternTag(p) == SubSeq(p, LastColon(p) + 1, Len(p))

\* C8 (as claimed): for a non-empty parseable candidate and a pattern with a
\* colon, matchesReference is true iff the candidate's tag equals the
\* pattern's tag and the candidate's repository equals the pattern's
\* repository or ends with "/" + that repository, also when the pattern's
\* repository holds a host:port colon; untagged candidates never match.
C8_TaggedPatternMatch ==
    RefReturned =>
        LET c == call.imageName
            p == call.argName
            named == ParseNormalizedNamed(c)
        IN  (c # <<>> /\ named.ok /\ Contains(p, ":")) =>
                (ret[1] <=> /\ named.tagged
                            /\ named.tag = PatternTag(p)
                            /\ \/ named.name = PatternRepository(p)
                               \/ EndsWithSlash(named.name, PatternRepository(p)))

\* C9: an empty pattern matches every candidate; an empty or unparseable
\* candidate matches no non-empty pattern; a non-empty pattern without a
\* colon matches iff the candidate's normalized repository name equals the
\* pattern or ends with "/" + pattern, whatever the candidate's tag.
C9_UntaggedPatternMatch ==
    RefReturned =>
        LET c == call.imageName
            p == call.argName
            named == ParseNormalizedNamed(c)
        IN  /\ p = <<>> => ret[1]
            /\ (p # <<>> /\ (c = <<>> \/ ~named.ok)) => ~ret[1]
            /\ (p # <<>> /\ ~Contains(p, ":") /\ c # <<>> /\ named.ok) =>
                   (ret[1] <=> (named.name = p \/ EndsWithSlash(named.name, p)))

\* a tagged, fully qualified candidate matched by a short untagged pattern
C9_Witness ==
    /\ RefReturned /\ ret[1]
    /\ call.imageName = <<"reg.io", "/", "myrepo", "/", "image", ":", "v1">>
    /\ call.argName = <<"myrepo", "/", "image">>

\* ---------------------------------------------------------------- SpecSize
\* formattedSize called on generated sizes: a few leading digits followed by
\* zeros, from bytes up to thousands of terabytes.
MaxZeros == 13

Mantissas ==
    { <<1>>, <<1, 5>>, <<9, 9, 9>>, <<1, 2, 3, 4>>, <<9, 9, 9, 4>>, <<9, 9, 9, 5>>,
      <<1, 0, 0, 5>>, <<1, 0, 1, 5>>, <<1, 1, 2, 5>> }

Sizes == { <<0>> } \cup { m \o [k \in 1..z |-> 0] : m \in Mantissas, z \in 0..MaxZeros }

InitSize ==
    /\ CmdIdle
    /\ call \in {[fn |-> "formattedSize", size |-> n] : n \in Sizes}
    /\ ret = <<>>

CallFormattedSize ==
    /\ call.fn = "formattedSize" /\ ret = <<>>
    /\ ret' = <<formattedSize(call.size)>>
    /\ UNCHANGED <<call, cmdVars>>

NextSize == CallFormattedSize

SpecSize == InitSize /\ [][NextSize]_vars

SizeReturned == call.fn = "formattedSize" /\ ret # <<>>

\* the suffix and the number of what formattedSize returned
SizeSuffix == ret[1][Len(ret[1])]
SizeNumber == SubSeq(ret[1], 1, Len(ret[1]) - 2)

\* the index c of the largest suffix for which size / 1000^c is below 1000,
\* 4 (TB) when there is none: size has more than 3c and at most 3c + 3 digits
LargestSuffix(c) ==
    /\ c \in 0..4
    /\ c > 0 => Len(call.size) > 3 * c
    /\ c < 4 => Len(call.size) <= 3 * c + 3

SuffixRule ==
    /\ ret[1][Len(ret[1]) - 1] = " "
    /\ \E c \in 0..4 : LargestSuffix(c) /\ SizeSuffix = suffixes[c + 1]

DigitChars == {"0", "1", "2", "3", "4", "5", "6", "7", "8", "9"}

\* the part of the number before its exponent
SizeMantissa ==
    IF Contains(SizeNumber, "e") THEN SubSeq(SizeNumber, 1, IndexOf(SizeNumber, "e") - 1)
    ELSE SizeNumber

\* C15 (as claimed): the suffix is the largest one for which the scaled value
\* is below 1000, and the number has three significant digits:
\* formattedSize(999) = "999 B", formattedSize(1000) = "1.00 KB",
\* formattedSize(1500000) = "1.50 MB".
C15_FormattedSize_Claimed ==
    SizeReturned =>
        /\ SuffixRule
        /\ call.size = <<9, 9, 9>> => ret[1] = <<"9", "9", "9", " ", "B">>
        /\ call.size = <<1, 0, 0, 0>> => ret[1] = <<"1", ".", "0", "0", " ", "KB">>
        /\ call.size = <<1, 5, 0, 0, 0, 0, 0>> => ret[1] = <<"1", ".", "5", "0", " ", "MB">>

\* C15 (amended): the suffix is the largest one for which the scaled value is
\* below 1000 (TB at most), and the number is the scaled value rounded to
\* three significant digits with trailing zeros dropped (no fraction is
\* left of 1.00), in exponent form when it rounds to 1000 or more:
\* formattedSize(999) = "999 B", formattedSize(1000) = "1 KB",
\* formattedSize(1500000) = "1.5 MB", formattedSize(999500) = "1e+03 KB".
C15_FormattedSize ==
    SizeReturned =>
        /\ SuffixRule
        /\ Cardinality({i \in 1..Len(SizeMantissa) : SizeMantissa[i] \in DigitChars}) \in 1..3
        /\ Contains(SizeMantissa, ".") => SizeMantissa[Len(SizeMantissa)] \notin {"0", "."}
        /\ SizeMantissa[1] = ToString(call.size[1]) \/ SizeMantissa[1] = ToString(call.size[1] + 1)
              \/ (call.size[1] = 9 /\ SizeMantissa[1] = "1")
        /\ call.size = <<9, 9, 9>> => ret[1] = <<"9", "9", "9", " ", "B">>
        /\ call.size = <<1, 0, 0, 0>> => ret[1] = <<"1", " ", "KB">>
        /\ call.size = <<1, 5, 0, 0, 0, 0, 0>> => ret[1] = <<"1", ".", "5", " ", "MB">>
        /\ call.size = <<9, 9, 9, 5, 0, 0>> => ret[1] = <<"1", "e", "+", "0", "3", " ", "KB">>

\* one and a half million bytes are 1.5 MB
C15_Witness ==
    /\ SizeReturned /\ call.size = <<1, 5, 0, 0, 0, 0, 0>>
    /\ ret[1] = <<"1", ".", "5", " ", "MB">>

====
